---- MODULE Spec2Model ----
(***************************************************************************)
(* Model of xarm_gazebo/src/mimic_joint_plugin.cpp:                        *)
(* GazeboMimicJointPlugin, its constructor, destructor, Load and OnUpdate. *)
(*                                                                         *)
(* Fixed-point representation of the doubles of the source:                *)
(*   angles   : 1 unit = 0.5 rad                                           *)
(*   time     : 1 unit = 1 ms                                              *)
(*   effort   : 1 unit = 0.00005 (= 0.1 * 0.5 rad * 0.001 s), so that the  *)
(*              integral term k_i * i_error is exact in integers           *)
(* multiplier is dimensionless.  NaN and infinities are not represented.   *)
(***************************************************************************)
EXTENDS Integers, Sequences, FiniteSets, TLC

\* ----- bounds of the model ------------------------------------------------
MaxTicks == 2
MaxAngle == 3

\* ----- the host model (world) the plugin is loaded into -------------------
NullPtr == "null"
ModelJoints == {"a", "b"}
JointNames == ModelJoints \cup {"zz"}
Angles == 0..MaxAngle
\* world step sizes (GetMaxStepSize), in ms
StepSizes == {1, 1000}

\* effort units per 1.0 of effort
EffortScale == 20000
\* mimic joint's GetEffortLimit(0): 3.0 for "a"; "b" has no <effort> limit
\* in its description, which Gazebo reports as -1.0
EffortLimit ==
  [j \in ModelJoints |-> IF j = "a" THEN 3 * EffortScale ELSE -EffortScale]

Multipliers == {-1, 2}
Offsets == {-1}
Sensitivenesses == {2}
MaxEfforts == {(15 * EffortScale) \div 2, -EffortScale}

\* an optional SDF element: <<>> when absent, <<v>> when present
Opt(S) == {<<>>} \cup {<<v>> : v \in S}

SdfElements ==
  [joint : Opt(JointNames), mimicJoint : Opt(JointNames), hasPID : BOOLEAN,
   multiplier : Opt(Multipliers), offset : Opt(Offsets),
   sensitiveness : Opt(Sensitivenesses), maxEffort : Opt(MaxEfforts)]

\* sdf->HasElement(k) for the valued elements
HasElement(e) == Len(e) > 0
\* sdf->GetElement(k)->Get<T>()
Get(e) == e[1]

\* model_->GetJoint(name)
GetJoint(name) == IF name \in ModelJoints THEN name ELSE NullPtr

Abs(x) == IF x < 0 THEN -x ELSE x
Min(x, y) == IF x < y THEN x ELSE y
Max(x, y) == IF x > y THEN x ELSE y

\* ignition::math::clamp(v, min, max) = std::max(std::min(v, max), min)
clamp(v, lo, hi) == Max(Min(v, hi), lo)

VARIABLES
  parent,             \* the ModelPtr the host passes to Load is non-null
  ros_ok,             \* rclcpp::ok()
  sdf,                \* the plugin's SDF element
  phase,              \* "constructed", or "loaded" once Load has returned
  destroyed,          \* the destructor has run
  model_, joint_name_, mimic_joint_name_, has_pid_, pid_,
  multiplier_, offset_, sensitiveness_, joint_, mimic_joint_,
  max_effort_, loop_rate_, update_connection_,
  log,                \* messages handed to the logger, in order
  fmax_writes,        \* SetParam("fmax", 0, v) calls on the mimic joint
  ticks,              \* number of OnUpdate executions
  last_tick,          \* what the last OnUpdate read and issued
  ever_force, ever_pos \* a SetForce / SetPosition was ever issued

vars == <<parent, ros_ok, sdf, phase, destroyed, model_, joint_name_,
          mimic_joint_name_,
          has_pid_, pid_, multiplier_, offset_, sensitiveness_, joint_,
          mimic_joint_, max_effort_, loop_rate_, update_connection_, log,
          fmax_writes, ticks, last_tick, ever_force, ever_pos>>

NoTick == [master |-> 0, a |-> 0, cmds |-> <<>>]

\* State after GazeboMimicJointPlugin(): joint_ and mimic_joint_ are reset.
\* The scalar members are not initialised by the constructor; none of them is
\* read before Load assigns it, so they are shown here with a fixed value.
Init ==
  /\ parent \in BOOLEAN
  /\ ros_ok \in BOOLEAN
  /\ sdf \in SdfElements
  /\ phase = "constructed"
  /\ destroyed = FALSE
  /\ model_ = FALSE
  /\ joint_name_ = ""
  /\ mimic_joint_name_ = ""
  /\ has_pid_ = FALSE
  /\ pid_ = [made |-> FALSE, i_error |-> 0, p_error_last |-> 0, calls |-> 0]
  /\ multiplier_ = 0
  /\ offset_ = 0
  /\ sensitiveness_ = 0
  /\ joint_ = NullPtr
  /\ mimic_joint_ = NullPtr
  /\ max_effort_ = 0
  /\ loop_rate_ = 0
  /\ update_connection_ = FALSE
  /\ log = <<>>
  /\ fmax_writes = <<>>
  /\ ticks = 0
  /\ last_tick = NoTick
  /\ ever_force = FALSE
  /\ ever_pos = FALSE

\* ----- control_toolbox::Pid as used at lines 70-75 and 140 ----------------
\* The library is not part of this repository; the controller follows its
\* documented law: integral of error*dt, integral term limited to
\* [-i_clamp, i_clamp], derivative from the previous error.
\* declare_parameter defaults of the gains (k_i and i_clamp in tenths)
K_p == 10
K_i_tenths == 1
K_d == 0
I_clamp_tenths == 2

\* std::make_shared<control_toolbox::Pid>(k_p, k_i, k_d, i_clamp, -i_clamp):
\* a fresh controller, integral and previous error zero
MakePid == [made |-> TRUE, i_error |-> 0, p_error_last |-> 0, calls |-> 0]

\* controller state after pid_->computeCommand(error, dt): the integral
\* accumulates error*dt, the previous error is replaced ("calls" counts the
\* invocations)
PidUpdate(pid, error, dt) ==
  [pid EXCEPT !.i_error = @ + dt * error, !.p_error_last = error,
              !.calls = @ + 1]

\* value returned by pid_->computeCommand(error, dt):
\* k_p*error + clamp(k_i*integral, -i_clamp, i_clamp) + k_d*(error-prev)/dt
PidCommand(pid, error, dt) ==
  LET p_term == K_p * error * (EffortScale \div 2)
      i_term == clamp(K_i_tenths * (pid.i_error + dt * error),
                      -(I_clamp_tenths * (EffortScale \div 10)),
                      I_clamp_tenths * (EffortScale \div 10))
      d_term == (K_d * (error - pid.p_error_last) * 500 * EffortScale) \div dt
  IN  p_term + i_term + d_term

\* ----- Load ---------------------------------------------------------------
\* The check of Load that returns early, in the order of the code:
\* 1 null model, 2 rclcpp not ok, 3 no "joint", 4 no "mimicJoint",
\* 5 master joint not found, 6 mimic joint not found; 0 when Load goes through
\* variant of LoadFailure that leaves out the rclcpp::ok() check
LoadFailure_NoRosCheck(p, ok, s) ==
  IF ~p THEN 1
  ELSE IF ~HasElement(s.joint) THEN 3
  ELSE IF ~HasElement(s.mimicJoint) THEN 4
  ELSE IF GetJoint(Get(s.joint)) = NullPtr THEN 5
  ELSE IF GetJoint(Get(s.mimicJoint)) = NullPtr THEN 6
  ELSE 0

LoadFailure(p, ok, s) ==
  IF ~p THEN 1
  ELSE IF ~ok THEN 2
  ELSE IF ~HasElement(s.joint) THEN 3
  ELSE IF ~HasElement(s.mimicJoint) THEN 4
  ELSE IF GetJoint(Get(s.joint)) = NullPtr THEN 5
  ELSE IF GetJoint(Get(s.mimicJoint)) = NullPtr THEN 6
  ELSE 0

\* variant of Diagnostic with the messages of the two key checks exchanged
Diagnostic_KeysSwapped(f) ==
  CASE f = 1 -> "parent model is NULL"
    [] f = 2 -> "A ROS node for Gazebo has not been initialized"
    [] f = 3 -> "No mimicJoint element present"
    [] f = 4 -> "No joint element present"
    [] f = 5 -> "No joint named"
    [] f = 6 -> "No (mimic) joint named"

\* the message logged on each early return
Diagnostic(f) ==
  CASE f = 1 -> "parent model is NULL"
    [] f = 2 -> "A ROS node for Gazebo has not been initialized"
    [] f = 3 -> "No joint element present"
    [] f = 4 -> "No mimicJoint element present"
    [] f = 5 -> "No joint named"
    [] f = 6 -> "No (mimic) joint named"

StartingMsg == "Starting gazebo_ros2_mimic_joint plugin"
LoadedMsg == "MimicJointPlugin loaded!"

\* variant of ResolveMaxEffort that ignores the maxEffort element
ResolveMaxEffort_LimitOnly(s, mj) == EffortLimit[mj]

\* max_effort_: the maxEffort element if present, else the mimic joint's
\* effort limit
ResolveMaxEffort(s, mj) ==
  IF HasElement(s.maxEffort) THEN Get(s.maxEffort) ELSE EffortLimit[mj]

Load ==
  /\ phase = "constructed"
  /\ ~destroyed
  /\ \E step \in StepSizes :
     LET f == LoadFailure(parent, ros_ok, sdf)
         \* Load got past check number k
         past(k) == f = 0 \/ f > k
         me == ResolveMaxEffort(sdf, Get(sdf.mimicJoint))
     IN
     /\ phase' = "loaded"
     /\ model_' = parent
     /\ log' = <<StartingMsg>> \o
               (IF f = 0 THEN <<LoadedMsg>> ELSE <<Diagnostic(f)>>)
     /\ joint_name_' = IF past(3) THEN Get(sdf.joint) ELSE joint_name_
     /\ mimic_joint_name_' =
          IF past(4) THEN Get(sdf.mimicJoint) ELSE mimic_joint_name_
     /\ has_pid_' = IF past(4) THEN sdf.hasPID ELSE has_pid_
     /\ pid_' = IF past(4) /\ sdf.hasPID THEN MakePid ELSE pid_
     /\ multiplier_' =
          IF past(4)
          THEN (IF HasElement(sdf.multiplier) THEN Get(sdf.multiplier) ELSE 1)
          ELSE multiplier_
     /\ offset_' =
          IF past(4)
          THEN (IF HasElement(sdf.offset) THEN Get(sdf.offset) ELSE 0)
          ELSE offset_
     /\ sensitiveness_' =
          IF past(4)
          THEN (IF HasElement(sdf.sensitiveness)
                THEN Get(sdf.sensitiveness) ELSE 0)
          ELSE sensitiveness_
     /\ joint_' = IF past(4) THEN GetJoint(Get(sdf.joint)) ELSE joint_
     /\ mimic_joint_' =
          IF past(5) THEN GetJoint(Get(sdf.mimicJoint)) ELSE mimic_joint_
     /\ max_effort_' = IF f = 0 THEN me ELSE max_effort_
     /\ fmax_writes' =
          IF f = 0 /\ ~sdf.hasPID
          THEN Append(fmax_writes, [joint |-> Get(sdf.mimicJoint), value |-> me])
          ELSE fmax_writes
     /\ loop_rate_' = IF f = 0 THEN step ELSE loop_rate_
     /\ update_connection_' = (f = 0)
     /\ UNCHANGED <<parent, ros_ok, sdf, destroyed, ticks, last_tick,
                    ever_force, ever_pos>>

\* ----- OnUpdate -----------------------------------------------------------
\* variants of Actuates: no deadband at all, and a strict comparison
Actuates_Always(angle, a, s) == TRUE
Actuates_Strict(angle, a, s) == Abs(angle - a) > s

\* the test of line 137
Actuates(angle, a, s) == Abs(angle - a) >= s

\* variant of PositionCommand without the override flag
PositionCommand_NoOverride(angle) ==
  [kind |-> "position", value |-> angle, flag |-> FALSE]

ForceCommand(effort) == [kind |-> "force", value |-> effort, flag |-> FALSE]
PositionCommand(angle) == [kind |-> "position", value |-> angle, flag |-> TRUE]

\* variant of Command with the branches of has_pid_ exchanged
Command_Inverted(pid, has_pid, angle, a, dt, me) ==
  IF ~has_pid
  THEN ForceCommand(clamp(PidCommand(pid, angle - a, dt), -me, me))
  ELSE PositionCommand(angle)

\* the command of lines 138-145, issued when the test of line 137 passes
Command(pid, has_pid, angle, a, dt, me) ==
  IF has_pid
  THEN ForceCommand(clamp(PidCommand(pid, angle - a, dt), -me, me))
  ELSE PositionCommand(angle)

\* variant of PidAfterTick that runs computeCommand before the test of line 137
PidAfterTick_EveryTick(pid, has_pid, act, error, dt) ==
  IF has_pid THEN PidUpdate(pid, error, dt) ELSE pid

\* the PID controller after a tick: computeCommand runs only inside the test
\* of line 137 and only with has_pid_
PidAfterTick(pid, has_pid, act, error, dt) ==
  IF act /\ has_pid THEN PidUpdate(pid, error, dt) ELSE pid

\* One WorldUpdateBegin event delivered through update_connection_.  master
\* and a are the angles joint_->Position(0) and mimic_joint_->Position(0)
\* return on this tick.
OnUpdate ==
  /\ update_connection_
  /\ ticks < MaxTicks
  /\ \E master \in Angles, a \in Angles :
     /\ joint_ = mimic_joint_ => master = a
     /\ LET angle == master * multiplier_ + offset_
            act == Actuates(angle, a, sensitiveness_)
            cmds == IF act
                    THEN <<Command(pid_, has_pid_, angle, a, loop_rate_, max_effort_)>>
                    ELSE <<>>
        IN
        /\ pid_' = PidAfterTick(pid_, has_pid_, act, angle - a, loop_rate_)
        /\ last_tick' = [master |-> master, a |-> a, cmds |-> cmds]
        /\ ever_force' = (ever_force \/ \E i \in 1..Len(cmds) : cmds[i].kind = "force")
        /\ ever_pos' = (ever_pos \/ \E i \in 1..Len(cmds) : cmds[i].kind = "position")
  /\ ticks' = ticks + 1
  /\ UNCHANGED <<parent, ros_ok, sdf, phase, destroyed, model_, joint_name_,
                 mimic_joint_name_, has_pid_, multiplier_, offset_,
                 sensitiveness_, joint_, mimic_joint_, max_effort_, loop_rate_,
                 update_connection_, log, fmax_writes>>

\* ----- ~GazeboMimicJointPlugin --------------------------------------------
Destroy ==
  /\ ~destroyed
  /\ destroyed' = TRUE
  /\ update_connection_' = FALSE
  /\ UNCHANGED <<parent, ros_ok, sdf, phase, model_, joint_name_,
                 mimic_joint_name_,
                 has_pid_, pid_, multiplier_, offset_, sensitiveness_, joint_,
                 mimic_joint_, max_effort_, loop_rate_, log, fmax_writes,
                 ticks, last_tick, ever_force, ever_pos>>

Next == Load \/ OnUpdate \/ Destroy

Spec == Init /\ [][Next]_vars

\* ======================= properties =======================================
\* The six preconditions of arming, read off the inputs of Load
Preconditions ==
  /\ parent
  /\ ros_ok
  /\ sdf.joint # <<>>
  /\ sdf.mimicJoint # <<>>
  /\ sdf.joint[1] \in ModelJoints
  /\ sdf.mimicJoint[1] \in ModelJoints

\* target and error of the last tick, from what it read
LastTarget == last_tick.master * multiplier_ + offset_
LastError == LastTarget - last_tick.a

\* C1: once Load has returned the controller is armed (subscribed to the
\* per-step event) iff all six preconditions hold; when one fails it is never
\* armed, no tick executes and nothing is written to the mimic joint.
C1_ArmedIffPreconditions ==
  /\ (phase = "loaded" /\ ~destroyed) => (update_connection_ <=> Preconditions)
  /\ ~Preconditions =>
       /\ ~update_connection_
       /\ ticks = 0
       /\ last_tick.cmds = <<>>
       /\ ~ever_force
       /\ ~ever_pos
       /\ fmax_writes = <<>>

C1_Witness ==
  /\ phase = "loaded"
  /\ parent /\ ros_ok
  /\ sdf.joint = <<"a">>
  /\ sdf.mimicJoint = <<"zz">>
  /\ ~update_connection_

\* the diagnostic of the first failing precondition, in the fixed order
ExpectedDiagnostic ==
  IF ~parent THEN "parent model is NULL"
  ELSE IF ~ros_ok THEN "A ROS node for Gazebo has not been initialized"
  ELSE IF sdf.joint = <<>> THEN "No joint element present"
  ELSE IF sdf.mimicJoint = <<>> THEN "No mimicJoint element present"
  ELSE IF sdf.joint[1] \notin ModelJoints THEN "No joint named"
  ELSE "No (mimic) joint named"

\* C2 as stated: a failed Load emits exactly one message, the diagnostic of
\* the first failing precondition, and nothing is emitted before the
\* null-model check.
C2_OnlyOneMessage ==
  (phase # "constructed" /\ ~Preconditions) =>
    (Len(log) = 1 /\ log[1] = ExpectedDiagnostic)

\* C2 amended: a failed Load emits the start-up message first, before the
\* null-model check, and after it exactly one diagnostic, that of the first
\* failing precondition in the fixed order.
C2_StartThenOneDiagnostic ==
  (phase # "constructed" /\ ~Preconditions) =>
    log = <<StartingMsg, ExpectedDiagnostic>>

C2_Witness ==
  /\ phase = "loaded"
  /\ parent /\ ros_ok
  /\ sdf.joint = <<>>
  /\ sdf.mimicJoint = <<>>
  /\ log = <<StartingMsg, "No joint element present">>

\* C3: in PID mode every force command issued by a tick lies in
\* [-max_effort, +max_effort], for every configuration Load accepts.
C3_ForceWithinMaxEffort ==
  \A i \in 1..Len(last_tick.cmds) :
    last_tick.cmds[i].kind = "force" =>
      /\ -max_effort_ <= last_tick.cmds[i].value
      /\ last_tick.cmds[i].value <= max_effort_

\* C4: a tick whose error is smaller in magnitude than the deadband issues
\* no command, in either mode.
C4_DeadbandSuppression ==
  (ticks > 0 /\ Abs(LastError) < sensitiveness_) => last_tick.cmds = <<>>

C4_Witness ==
  /\ ticks > 0
  /\ has_pid_
  /\ LastError = -1
  /\ sensitiveness_ = 2
  /\ last_tick.cmds = <<>>

\* C5: with PID disabled, a tick whose error is at least the deadband issues
\* exactly one position command, of the unclamped target, with the override
\* flag set.
C5_DirectDriveExact ==
  (ticks > 0 /\ ~has_pid_ /\ Abs(LastError) >= sensitiveness_) =>
    last_tick.cmds =
      <<[kind |-> "position",
         value |-> last_tick.master * multiplier_ + offset_,
         flag |-> TRUE]>>

C5_Witness ==
  /\ ticks > 0
  /\ ~has_pid_
  /\ multiplier_ = 2
  /\ last_tick.master = MaxAngle
  /\ Len(last_tick.cmds) = 1
  /\ last_tick.cmds[1].value > MaxAngle

\* C6 as stated: a tick with error 0 and deadband 0 issues no command.
C6_NoCommandAtEquilibrium ==
  (ticks > 0 /\ LastError = 0 /\ sensitiveness_ = 0) => last_tick.cmds = <<>>

\* C6 amended: a tick with error 0 and deadband 0 does issue a command (0 is
\* not below the deadband): the position command of the target with the
\* override flag in direct drive, one force command in PID mode.
C6_CommandAtEquilibrium ==
  (ticks > 0 /\ LastError = 0 /\ sensitiveness_ = 0) =>
    /\ Len(last_tick.cmds) = 1
    /\ ~has_pid_ =>
         last_tick.cmds[1] =
           [kind |-> "position", value |-> last_tick.a, flag |-> TRUE]
    /\ has_pid_ => last_tick.cmds[1].kind = "force"

\* master 1.0, multiplier 2.0, offset -0.5, mimic 1.5, deadband 0.0
C6_Witness ==
  /\ ticks > 0
  /\ last_tick.master = 2
  /\ multiplier_ = 2
  /\ offset_ = -1
  /\ last_tick.a = 3
  /\ sensitiveness_ = 0
  /\ ~has_pid_
  /\ Len(last_tick.cmds) = 1

\* C7: whenever the controller is armed, master and mimic joint differ.
C7_DistinctJoints == update_connection_ => joint_ # mimic_joint_

\* C8: a tick issues at most one command; force commands occur only with
\* use_pid, position commands only without, so one controller never issues
\* both kinds.
C8_TickOutputExclusive ==
  /\ Len(last_tick.cmds) <= 1
  /\ \A i \in 1..Len(last_tick.cmds) :
       last_tick.cmds[i].kind = (IF sdf.hasPID THEN "force" ELSE "position")
  /\ ever_force => sdf.hasPID
  /\ ever_pos => ~sdf.hasPID
  /\ ~(ever_force /\ ever_pos)

C8_Witness ==
  /\ ticks >= 2
  /\ has_pid_
  /\ ever_force
  /\ Len(last_tick.cmds) = 1

\* C9: after a successful Load max_effort is the configured maxEffort if
\* present, else the mimic joint's effort limit; fmax is written exactly
\* once, with that value, when PID is disabled, and never with PID enabled,
\* by a failed Load or by a tick.
C9_MaxEffortAndStaticCap ==
  /\ (phase # "constructed" /\ Preconditions) =>
       /\ max_effort_ = (IF sdf.maxEffort # <<>> THEN sdf.maxEffort[1]
                         ELSE EffortLimit[sdf.mimicJoint[1]])
       /\ fmax_writes =
            (IF sdf.hasPID THEN <<>>
             ELSE <<[joint |-> sdf.mimicJoint[1], value |-> max_effort_]>>)
  /\ (phase = "constructed" \/ ~Preconditions) => fmax_writes = <<>>

C9_Witness ==
  /\ ticks > 0
  /\ ~has_pid_
  /\ sdf.maxEffort # <<>>
  /\ sdf.maxEffort[1] # EffortLimit[mimic_joint_]
  /\ Len(fmax_writes) = 1
  /\ Len(last_tick.cmds) = 1

\* C10 as stated: in PID mode the controller state is updated on every tick,
\* deadband-suppressed ticks included.
C10_PidUpdatedEveryTick == has_pid_ => pid_.calls = ticks

\* C10 amended: in PID mode the controller state is updated exactly on the
\* ticks whose error is at least the deadband; a suppressed tick leaves
\* integral accumulator and previous error as they were (not updated, not
\* reset), and nothing else changes them after Load.
C10_PidUpdatedOnlyWhenActuating ==
  [][/\ (ticks' = ticks + 1 /\ has_pid_) =>
          LET err == last_tick'.master * multiplier_ + offset_ - last_tick'.a
          IN  IF Abs(err) < sensitiveness_
              THEN pid_' = pid_
              ELSE /\ pid_'.calls = pid_.calls + 1
                   /\ pid_'.i_error = pid_.i_error + loop_rate_ * err
                   /\ pid_'.p_error_last = err
      /\ (ticks' = ticks /\ phase # "constructed") => pid_' = pid_
    ]_vars

C10_Witness ==
  /\ ticks = 2
  /\ has_pid_
  /\ pid_.calls = 1
  /\ pid_.i_error # 0
  /\ last_tick.cmds = <<>>

====
